---- MODULE Spec2Model ----
(***************************************************************************)
(* The concurrency and telemetry control plane of the inference front end: *)
(* ConcurrentLLM (modules/concurrent_handler.py), the request path of      *)
(* SimpleLLM (modules/llm_core.py) and PerformanceMonitor                  *)
(* (modules/performance_monitor.py): its request counters, its response-   *)
(* time log, its sampling thread and get_metrics.  Further the             *)
(* constructors' handling of the backend and concurrency arguments, the    *)
(* session of SimpleLLM (chat history, prompt, statistics), the            *)
(* RequestQueue with the heap of its priority queue, and the LoadBalancer. *)
(*                                                                         *)
(* Every caller is a thread of its own.  A caller of generate_response     *)
(* drives the generator it got: each next() runs the generator's code up   *)
(* to the next yield, and at a yield the caller either resumes or closes.  *)
(* A caller of generate_response_async is the worker thread, which drains  *)
(* the runner's generator with list().  A step of the model is the code    *)
(* between two accesses to shared state (a lock-protected section is one   *)
(* step; the dispatcher lock, which generate_response holds across a       *)
(* yield, is a variable).                                                  *)
(***************************************************************************)
EXTENDS Integers, Sequences, FiniteSets, TLC

\* Bounds of the model.
NumCallers == 2
MaxConcurrent == 2
MaxTokens == 1
MaxThreads == 2         \* threads start_monitoring may create
MaxRecorded == 2        \* record_request_start calls, and entries of the log, of a direct client
MaxOverflow == 1        \* entries the log may hold beyond MaxResponseTimes
MaxFailed == 1          \* zero durations the log may hold while it is filled up
MaxFairTurns == 2       \* entries of the history while callers submit for ever
MaxFairTotal == 1       \* total_chars and total_time while callers submit for ever
MaxTurns == 11          \* entries of the history of a long conversation
MaxTotal == 2           \* total_chars and total_time in a long conversation
MaxSize == 2            \* max_size of the RequestQueue
MaxPending == 3         \* entries of the priority queue, which has no limit of its own
MaxInstances == 3       \* instances handed to a LoadBalancer
MaxIssued == 3          \* get_next_instance calls of a LoadBalancer
MaxCompleted == 3       \* mark_request_complete calls with an id in range

\* `self.response_times[-100:]`
MaxResponseTimes == 100

Callers == 1..NumCallers

Samplers == 1..MaxThreads

\* Who holds a lock: nobody, the thread of a caller, or a thread running _monitor_loop.
NoThread == <<"none", 0>>

CallerThread(c) == <<"caller", c>>

SamplerThread(t) == <<"sampler", t>>

\* time.time() - start_time of a generation: positive; no guard reads its magnitude.
GenerationTimes == {1}

VARIABLES
    max_concurrent,     \* ConcurrentLLM.max_concurrent
    active_requests,    \* ConcurrentLLM.active_requests
    lock,               \* ConcurrentLLM.lock: 0 when free, else the caller whose generator holds it
    llm,                \* SimpleLLM.llm is not None (load_model succeeded)
    monitor,            \* SimpleLLM.monitor is not None
    metrics,            \* PerformanceMonitor.metrics
    response_times,     \* PerformanceMonitor.response_times
    req,                \* per caller: its call, the generator's position and what the call did
    is_monitoring,      \* PerformanceMonitor.is_monitoring
    threads,            \* the threads start_monitoring created: where each stands in _monitor_loop
    mlock,              \* PerformanceMonitor.lock: the thread that holds it, or NoThread
    slock,              \* SimpleLLM.lock: the thread that holds it, or NoThread
    call,               \* per caller: the method of the monitor or the session its thread is inside
    snap,               \* per caller: the object get_metrics returned to it and what it read of it
    available_backends, \* SimpleLLM.available_backends: what the detection returned
    backend,            \* SimpleLLM.backend: the backend argument of the constructor
    selected_backend,   \* SimpleLLM.selected_backend
    constructed,        \* what the constructor call gave: an instance, or the error it raised
    chat_history,       \* SimpleLLM.chat_history
    total_chars,        \* SimpleLLM.total_chars
    total_time,         \* SimpleLLM.total_time
    queue,              \* RequestQueue.queue
    priority_queue,     \* RequestQueue.priority_queue: the list of the heap
    added,              \* the last add_request call: its arguments and how it ended
    next_request,       \* the consumer's get_next_request call: where it stands, how the last ended
    llm_instances,      \* LoadBalancer.llm_instances
    current_index,      \* LoadBalancer.current_index
    request_counts,     \* LoadBalancer.request_counts
    instance,           \* the last get_next_instance call: what it returned or raised
    issued,             \* per instance: the get_next_instance calls that returned it
    completed,          \* per instance: the mark_request_complete calls with its id
    unmatched           \* an id was completed that had not been issued, or once more than issued

\* What the constructors set of the configuration.
construction == <<available_backends, backend, selected_backend, constructed>>

\* The session of the runner: its history and its statistics.
session == <<chat_history, total_chars, total_time>>

\* The RequestQueue.
requests == <<queue, priority_queue, added, next_request>>

\* The LoadBalancer, and the account of the calls made to it.
balancer == <<llm_instances, current_index, request_counts, instance, issued, completed, unmatched>>

vars == <<max_concurrent, active_requests, lock, llm, monitor, metrics, response_times, req,
          is_monitoring, threads, mlock, slock, call, snap, construction, session, requests,
          balancer>>

Max(a, b) == IF a >= b THEN a ELSE b

\* No text: the user_input of a caller that has made no call.
NoInput == <<0, 0>>

\* Before the first add_request call.
NoAdd == [request_data |-> "", priority |-> 0, result |-> "none"]

\* How a get_next_request call ended: with a request, with None, or with an exception.
Outcome(kind, request_data) == [kind |-> kind, request_data |-> request_data]

\* No get_next_request call is under way and none has ended.
NotAsked == [pc |-> "idle", result |-> Outcome("none", "")]

(***************************************************************************)
(* A call.  entry: which entry point of ConcurrentLLM was called; pc: where *)
(* the generator (or worker) stands; token_count: SimpleLLM's local         *)
(* token_count; stream: the fragments the base generator and the           *)
(* dispatcher yielded to the caller, in order.  The other fields record    *)
(* what the call did: slept (time.sleep(0.1) ran), acquired and released   *)
(* (slot acquisitions, line 68, and releases, line 77), starts and ends    *)
(* (record_request_start calls; arguments of the record_request_end        *)
(* calls), invoked (calls of self.llm), closed (the caller closed the      *)
(* generator), callbacks (arguments of the callback invocations).  callback *)
(* is the callback handed to generate_response_async: "none" for None, or  *)
(* what the callable does when called with the result.  user_input is the  *)
(* text of the request and prompt what _build_prompt returned; loaded is   *)
(* the value of total_chars or total_time that `+=` has read and not yet   *)
(* written back, generation_time the local of that name.                   *)
(***************************************************************************)
NewCall ==
    [entry |-> "none", pc |-> "idle", token_count |-> 0, stream |-> <<>>,
     slept |-> FALSE, acquired |-> 0, released |-> 0, starts |-> 0,
     ends |-> <<>>, invoked |-> 0, closed |-> FALSE, callbacks |-> <<>>,
     callback |-> "none", user_input |-> NoInput, prompt |-> <<>>, loaded |-> 0,
     generation_time |-> 0]

\* The caller holds a slot: it acquired one and has not released it.
HoldsSlot(c) == req[c].acquired > req[c].released

\* A generation is in flight for the call: base_llm.generate_response found the runner
\* loaded, has started and has not finished.
InFlight(c) ==
    req[c].pc \in {"prompt", "stream", "y_token", "chars", "chars_store", "time",
                   "time_store", "record_end", "assistant", "y_stats", "y_error"}

\* The call was made and is not over.
Pending(c) == req[c].pc \notin {"idle", "done"}

Count(seq, x) == Cardinality({i \in DOMAIN seq : seq[i] = x})

Last(seq) == seq[Len(seq)]

\* PerformanceMetrics(): the probe's cpu_percent, the request counters, and the two
\* quotients as pairs: avg_response_time as <<sum, count>>, tokens_per_second as
\* <<tokens, duration>>.
PerformanceMetrics ==
    [cpu_percent |-> 0, total_requests |-> 0, active_requests |-> 0,
     avg_response_time |-> <<0, 1>>, tokens_per_second |-> <<0, 1>>]

\* What a caller holds of get_metrics: obj, the object that was returned ("none" before
\* the call); seen, the fields the caller has read of the object since, in order, as
\* <<field, value>>; states, the values the metrics store has had since the return that
\* agree with all of seen.
NoSnapshot == [obj |-> "none", seen |-> <<>>, states |-> {}]

\* The order in which format_metrics reads the fields of the object it got.
FieldOrder ==
    <<"cpu_percent", "total_requests", "active_requests", "avg_response_time",
      "tokens_per_second">>

\* The value m of the store agrees with every field read so far.
Agrees(m, seen) == \A i \in DOMAIN seen : m[seen[i][1]] = seen[i][2]

\* The fields of an object a caller holds: get_metrics hands out self.metrics itself.
Deref(obj) == IF obj = "self.metrics" THEN metrics ELSE PerformanceMetrics

\* The store takes the value m while callers hold what get_metrics returned.
Witnessed(m) ==
    [c \in Callers |->
        IF snap[c].obj # "none" /\ Agrees(m, snap[c].seen)
        THEN [snap[c] EXCEPT !.states = @ \cup {m}]
        ELSE snap[c]]

\* The caller's thread is inside get_metrics or clear_history.
Busy(c) == call[c] # "none"

\* The backends the detection reports on.
Backends == {"cpu", "cuda", "opencl", "metal"}

\* A name that is no backend.
UnknownBackends == {"tpu"}

\* The backend arguments of the constructors.
BackendArguments == {"auto"} \cup Backends \cup UnknownBackends

\* The largest --concurrent main.py lets through.
MaxLimit == 8

\* The max_concurrent arguments of ConcurrentLLM(...): in the range and around its ends.
LimitArguments == {0 - 1, 0, 1, MaxConcurrent, MaxLimit, MaxLimit + 1}

\* available.get(name, False)
Available(available, name) ==
    IF name \in DOMAIN available THEN available[name] ELSE FALSE

\* _select_best_backend with metal asked for first.
_select_best_backend_metal_first(available) ==
    IF Available(available, "metal") THEN "metal"
    ELSE IF Available(available, "cuda") THEN "cuda"
    ELSE IF Available(available, "opencl") THEN "opencl"
    ELSE "cpu"

\* _select_best_backend, on self.available_backends = available.
_select_best_backend(available) ==
    IF Available(available, "cuda") THEN "cuda"
    ELSE IF Available(available, "metal") THEN "metal"
    ELSE IF Available(available, "opencl") THEN "opencl"
    ELSE "cpu"

\* SimpleLLM.__init__, lines 43-46: self.selected_backend.
SelectedBackend(available, requested) ==
    IF requested = "auto"
    THEN _select_best_backend(available)
    ELSE IF Available(available, requested) THEN requested ELSE "cpu"

\* detect_available_backends() on a Linux machine without nvidia-smi.
Detected == [b \in Backends |-> b \in {"cpu", "opencl"}]

\* How a get_next_instance call ended: with (instance, instance_id), or with an
\* exception.
Chosen(kind, llm_instance, instance_id) ==
    [kind |-> kind, instance |-> llm_instance, instance_id |-> instance_id]

\* No instance: what a call that raised has returned.
NoInstance == <<"none", 0>>

\* No get_next_instance call has ended.
NotChosen == Chosen("none", NoInstance, 0)

\* LoadBalancer(llm_instances): the index is 0 and every count 0.  Nothing was issued
\* and nothing completed.
LoadBalancerInit(instances) ==
    /\ llm_instances = instances
    /\ current_index = 0
    /\ request_counts = [i \in DOMAIN instances |-> 0]
    /\ instance = NotChosen
    /\ issued = [i \in DOMAIN instances |-> 0]
    /\ completed = [i \in DOMAIN instances |-> 0]
    /\ unmatched = FALSE

\* What the constructors set besides the configuration: the dispatcher's counter and
\* lock, the runner's session, a PerformanceMonitor (has_monitor) or monitor=None, and
\* a RequestQueue.
Services(has_monitor) ==
    /\ active_requests = 0
    /\ lock = 0
    /\ llm = FALSE
    /\ monitor = has_monitor
    /\ metrics = PerformanceMetrics
    /\ response_times = <<>>
    /\ req = [c \in Callers |-> NewCall]
    /\ is_monitoring = FALSE
    /\ threads = [t \in Samplers |-> "unborn"]
    /\ mlock = NoThread
    /\ slock = NoThread
    /\ call = [c \in Callers |-> "none"]
    /\ snap = [c \in Callers |-> NoSnapshot]
    /\ chat_history = <<>>
    /\ total_chars = 0
    /\ total_time = 0
    /\ queue = <<>>
    /\ priority_queue = <<>>
    /\ added = NoAdd
    /\ next_request = NotAsked

\* The services, and a LoadBalancer that has no instance to balance.
Fresh(has_monitor) ==
    /\ Services(has_monitor)
    /\ LoadBalancerInit(<<>>)

\* The state after ConcurrentLLM(model_path, max_concurrent, monitor) was constructed,
\* with backend='auto'.
Constructed(has_monitor) ==
    /\ max_concurrent \in 1..MaxConcurrent
    /\ Fresh(has_monitor)
    /\ available_backends = Detected
    /\ backend = "auto"
    /\ selected_backend = _select_best_backend(available_backends)
    /\ constructed = "ConcurrentLLM"

Init == Constructed(TRUE)

----------------------------------------------------------------------------
(* PerformanceMonitor *)

\* record_request_start that forgets total_requests.
record_request_start_uncounted(m) ==
    [m EXCEPT !.active_requests = @ + 1]

\* record_request_start: the metrics after the call.
record_request_start(m) ==
    [m EXCEPT !.active_requests = @ + 1, !.total_requests = @ + 1]

\* record_request_end that takes 1 off active_requests whatever its value.
record_request_end_unclamped(m, duration, tokens) ==
    [m EXCEPT !.active_requests = @ - 1,
              !.tokens_per_second =
                  IF duration > 0 /\ tokens > 0 THEN <<tokens, duration>> ELSE @]

\* record_request_end that stores the quotient whatever its arguments.
record_request_end_unguarded(m, duration, tokens) ==
    [m EXCEPT !.active_requests = Max(0, @ - 1),
              !.tokens_per_second = <<tokens, duration>>]

\* record_request_end: the metrics after the call.
record_request_end(m, duration, tokens) ==
    [m EXCEPT !.active_requests = Max(0, @ - 1),
              !.tokens_per_second =
                  IF duration > 0 /\ tokens > 0 THEN <<tokens, duration>> ELSE @]

\* `if self.monitor: self.monitor.record_request_start()`
MonitorStart ==
    /\ monitor => mlock = NoThread
    /\ metrics' = IF monitor THEN record_request_start(metrics) ELSE metrics
    /\ snap' = IF monitor THEN Witnessed(metrics') ELSE snap
    /\ UNCHANGED response_times

\* `if self.monitor: self.monitor.record_request_end(duration, tokens)`
MonitorEnd(duration, tokens) ==
    /\ monitor => mlock = NoThread
    /\ metrics' = IF monitor THEN record_request_end(metrics, duration, tokens) ELSE metrics
    /\ snap' = IF monitor THEN Witnessed(metrics') ELSE snap
    /\ response_times' = IF monitor THEN Append(response_times, duration) ELSE response_times

RECURSIVE Sum(_)
\* sum(self.response_times)
Sum(seq) == IF seq = <<>> THEN 0 ELSE seq[1] + Sum(Tail(seq))

\* seq[-n:]
Newest(seq, n) == IF Len(seq) > n THEN SubSeq(seq, Len(seq) - n + 1, Len(seq)) ELSE seq

\* psutil.cpu_percent(interval=1): the reading of a probe that succeeds.
CpuReadings == {1}

\* The arguments record_request_end gets from llm_core: (0, 0) of a failed generation,
\* (generation_time, token_count) of a finished one, token_count = 0 when the runner
\* streamed nothing.
Durations == {0} \cup GenerationTimes

TokenCounts == 0..MaxTokens

\* start_monitoring that starts a thread whether or not one is running.
start_monitoring_unchecked ==
    /\ \E t \in Samplers :
          /\ threads[t] = "unborn"
          /\ \A u \in Samplers : u < t => threads[u] # "unborn"
          /\ is_monitoring' = TRUE
          /\ threads' = [threads EXCEPT ![t] = "loop"]
    /\ UNCHANGED <<max_concurrent, active_requests, lock, llm, monitor, metrics, response_times, req>>
    /\ UNCHANGED <<mlock, slock, call, snap>>
    /\ UNCHANGED <<construction, session, requests, balancer>>

\* start_monitoring: when not monitoring, the flag is set and a thread is created and
\* started on _monitor_loop; when monitoring, nothing.
start_monitoring ==
    /\ IF ~is_monitoring
       THEN \E t \in Samplers :
               /\ threads[t] = "unborn"
               /\ \A u \in Samplers : u < t => threads[u] # "unborn"
               /\ is_monitoring' = TRUE
               /\ threads' = [threads EXCEPT ![t] = "loop"]
       ELSE UNCHANGED <<is_monitoring, threads>>
    /\ UNCHANGED <<max_concurrent, active_requests, lock, llm, monitor, metrics, response_times, req>>
    /\ UNCHANGED <<mlock, slock, call, snap>>
    /\ UNCHANGED <<construction, session, requests, balancer>>

\* stop_monitoring: the flag is cleared; join(timeout=1) returns whether or not the
\* thread has left its loop by then.
stop_monitoring ==
    /\ is_monitoring' = FALSE
    /\ UNCHANGED <<max_concurrent, active_requests, lock, llm, monitor, metrics, response_times, req>>
    /\ UNCHANGED <<threads, mlock, slock, call, snap>>
    /\ UNCHANGED <<construction, session, requests, balancer>>

\* `while self.is_monitoring:` - the thread goes on to the with statement, or returns.
LoopTest(t) ==
    /\ threads[t] = "loop"
    /\ threads' = [threads EXCEPT ![t] = IF is_monitoring THEN "acquire" ELSE "exited"]
    /\ UNCHANGED <<max_concurrent, active_requests, lock, llm, monitor, metrics, response_times, req>>
    /\ UNCHANGED <<is_monitoring, mlock, slock, call, snap>>
    /\ UNCHANGED <<construction, session, requests, balancer>>

\* `with self.lock:` is entered and psutil.cpu_percent(interval=1) called: the thread
\* is in the one-second probe, inside the with block.
AcquireLock(t) ==
    /\ threads[t] = "acquire"
    /\ mlock = NoThread
    /\ mlock' = SamplerThread(t)
    /\ threads' = [threads EXCEPT ![t] = "probe"]
    /\ UNCHANGED <<max_concurrent, active_requests, lock, llm, monitor, metrics, response_times, req>>
    /\ UNCHANGED <<is_monitoring, slock, call, snap>>
    /\ UNCHANGED <<construction, session, requests, balancer>>

\* The rest of a tick whose probes succeed: the readings are stored, the average is
\* computed over the log, the log is cut to its newest entries, the with block is left
\* and the thread sleeps a second.
SamplerTick(t) ==
    /\ threads[t] = "probe"
    /\ \E reading \in CpuReadings :
          metrics' = [metrics EXCEPT
                         !.cpu_percent = reading,
                         !.avg_response_time =
                             IF response_times # <<>>
                             THEN <<Sum(response_times), Len(response_times)>>
                             ELSE @]
    /\ response_times' = IF response_times # <<>> /\ Len(response_times) > MaxResponseTimes
                         THEN Newest(response_times, MaxResponseTimes)
                         ELSE response_times
    /\ snap' = Witnessed(metrics')
    /\ mlock' = NoThread
    /\ threads' = [threads EXCEPT ![t] = "sleep"]
    /\ UNCHANGED <<max_concurrent, active_requests, lock, llm, monitor, req>>
    /\ UNCHANGED <<is_monitoring, slock, call>>
    /\ UNCHANGED <<construction, session, requests, balancer>>

\* A tick whose failing probe ends the thread: _monitor_loop without its handler.
ProbeEndsThread(t) ==
    /\ threads[t] = "probe"
    /\ mlock' = NoThread
    /\ threads' = [threads EXCEPT ![t] = "exited"]
    /\ UNCHANGED <<max_concurrent, active_requests, lock, llm, monitor, metrics, response_times, req>>
    /\ UNCHANGED <<is_monitoring, slock, call, snap>>
    /\ UNCHANGED <<construction, session, requests, balancer>>

\* A probe raises, psutil.cpu_percent before anything is stored or psutil.virtual_memory
\* after cpu_percent was: the exception leaves the with block, the handler prints and
\* the thread sleeps five seconds.
ProbeFails(t) ==
    /\ threads[t] = "probe"
    /\ \E m \in {metrics} \cup {[metrics EXCEPT !.cpu_percent = reading] : reading \in CpuReadings} :
          metrics' = m
    /\ snap' = Witnessed(metrics')
    /\ mlock' = NoThread
    /\ threads' = [threads EXCEPT ![t] = "backoff"]
    /\ UNCHANGED <<max_concurrent, active_requests, lock, llm, monitor, response_times, req>>
    /\ UNCHANGED <<is_monitoring, slock, call>>
    /\ UNCHANGED <<construction, session, requests, balancer>>

\* time.sleep(1) or time.sleep(5) is over: back to the loop's test.
Wake(t) ==
    /\ threads[t] \in {"sleep", "backoff"}
    /\ threads' = [threads EXCEPT ![t] = "loop"]
    /\ UNCHANGED <<max_concurrent, active_requests, lock, llm, monitor, metrics, response_times, req>>
    /\ UNCHANGED <<is_monitoring, mlock, slock, call, snap>>
    /\ UNCHANGED <<construction, session, requests, balancer>>

\* A step of the thread in _monitor_loop.
SamplerStep(t) ==
    \/ LoopTest(t)
    \/ AcquireLock(t)
    \/ SamplerTick(t)
    \/ ProbeFails(t)
    \/ Wake(t)

\* A client of the monitor calls record_request_start().
RequestStarted ==
    /\ monitor
    /\ metrics.total_requests < MaxRecorded
    /\ MonitorStart
    /\ UNCHANGED <<max_concurrent, active_requests, lock, llm, monitor, req>>
    /\ UNCHANGED <<is_monitoring, threads, mlock, slock, call>>
    /\ UNCHANGED <<construction, session, requests, balancer>>

\* A client of the monitor calls record_request_end(duration, tokens), after a
\* record_request_start of its own or without one.
RequestEnded(duration, tokens) ==
    /\ monitor
    /\ MonitorEnd(duration, tokens)
    /\ UNCHANGED <<max_concurrent, active_requests, lock, llm, monitor, req>>
    /\ UNCHANGED <<is_monitoring, threads, mlock, slock, call>>
    /\ UNCHANGED <<construction, session, requests, balancer>>

\* The caller's thread is not inside a next() of its generator.
AtRest(c) ==
    req[c].pc \in {"idle", "notice", "y_token", "y_stats", "y_error", "y_unloaded", "done"}

\* get_metrics: `with self.lock:` is entered.
GetMetricsEnter(c) ==
    /\ AtRest(c) /\ ~Busy(c)
    /\ snap[c].obj = "none"
    /\ mlock = NoThread
    /\ mlock' = CallerThread(c)
    /\ call' = [call EXCEPT ![c] = "get_metrics"]
    /\ UNCHANGED <<max_concurrent, active_requests, lock, llm, monitor, metrics, response_times, req>>
    /\ UNCHANGED <<is_monitoring, threads, slock, snap>>
    /\ UNCHANGED <<construction, session, requests, balancer>>

\* get_metrics: `return self.metrics` - the caller gets the monitor's own object, and
\* the with block is left.  The caller keeps the object (kept), or has no more use for
\* it when its thread takes its next step.
GetMetricsReturn(c, kept) ==
    /\ call[c] = "get_metrics"
    /\ mlock' = NoThread
    /\ call' = [call EXCEPT ![c] = "none"]
    /\ snap' = IF kept
               THEN [snap EXCEPT ![c] = [obj |-> "self.metrics", seen |-> <<>>,
                                         states |-> {metrics}]]
               ELSE snap
    /\ UNCHANGED <<max_concurrent, active_requests, lock, llm, monitor, metrics, response_times, req>>
    /\ UNCHANGED <<is_monitoring, threads, slock>>
    /\ UNCHANGED <<construction, session, requests, balancer>>

\* The caller reads the next field of the object it got, as format_metrics does.
ReadField(c) ==
    /\ AtRest(c) /\ ~Busy(c)
    /\ snap[c].obj # "none"
    /\ Len(snap[c].seen) < Len(FieldOrder)
    /\ LET field == FieldOrder[Len(snap[c].seen) + 1]
           value == Deref(snap[c].obj)[field]
       IN  snap' = [snap EXCEPT ![c].seen = Append(@, <<field, value>>),
                                ![c].states = {m \in @ : m[field] = value}]
    /\ UNCHANGED <<max_concurrent, active_requests, lock, llm, monitor, metrics, response_times, req>>
    /\ UNCHANGED <<is_monitoring, threads, mlock, slock, call>>
    /\ UNCHANGED <<construction, session, requests, balancer>>

\* The caller lets go of the object it got (format_metrics returns).
Discard(c) ==
    /\ AtRest(c) /\ ~Busy(c)
    /\ snap[c].obj # "none"
    /\ snap' = [snap EXCEPT ![c] = NoSnapshot]
    /\ UNCHANGED <<max_concurrent, active_requests, lock, llm, monitor, metrics, response_times, req>>
    /\ UNCHANGED <<is_monitoring, threads, mlock, slock, call>>
    /\ UNCHANGED <<construction, session, requests, balancer>>

----------------------------------------------------------------------------
(* SimpleLLM *)

\* The texts in use: those of the turns in the history.
TextsInUse == {chat_history[i].of : i \in DOMAIN chat_history}

\* The text of a new request of caller c: every request comes with a text of its own,
\* the caller's n-th message for the least n such that no turn of the history carries
\* it.
NewInput(c) ==
    LET n == CHOOSE n \in 1..(Len(chat_history) + 1) :
                 /\ <<c, n>> \notin TextsInUse
                 /\ \A m \in 1..(n - 1) : <<c, m>> \in TextsInUse
    IN  <<c, n>>

\* An entry of chat_history, {"role": role, "content": content}; of names the request
\* whose turn it is (it is not part of the entry).
Turn(role, content, n) == [role |-> role, content |-> content, of |-> n]

\* The characters that are stripped.
Whitespace == {" "}

RECURSIVE LStrip(_)
\* text.lstrip()
LStrip(text) ==
    IF text # <<>> /\ Head(text) \in Whitespace THEN LStrip(Tail(text)) ELSE text

RECURSIVE RStrip(_)
\* text.rstrip()
RStrip(text) ==
    IF text # <<>> /\ Last(text) \in Whitespace
    THEN RStrip(SubSeq(text, 1, Len(text) - 1))
    ELSE text

\* text.strip()
Strip(text) == RStrip(LStrip(text))

\* response_text after token_count tokens: the runner's tokens are one character each.
ResponseText(token_count) == [i \in 1..token_count |-> "t"]

\* The system line every prompt starts with and the opening of the reply it ends with.
SystemSegment == [role |-> "system", content |-> "system", of |-> NoInput]

AssistantOpening == [role |-> "assistant", content |-> "open", of |-> NoInput]

\* The line _build_prompt makes of an entry of the history.
Segment(msg) ==
    [role |-> IF msg.role = "user" THEN "user" ELSE "assistant",
     content |-> msg.content, of |-> msg.of]

\* The number of entries of the history a prompt takes.
RecentTurns == 6

\* _build_prompt that takes the whole history.
_build_prompt_unwindowed(history, user_input) ==
    <<SystemSegment>>
    \o [i \in DOMAIN history |-> Segment(history[i])]
    \o <<Segment(Turn("user", user_input, user_input)), AssistantOpening>>

\* _build_prompt(user_input) on self.chat_history = history: the lines that are joined.
_build_prompt(history, user_input) ==
    LET recent_history == Newest(history, RecentTurns)
    IN  <<SystemSegment>>
        \o [i \in DOMAIN recent_history |-> Segment(recent_history[i])]
        \o <<Segment(Turn("user", user_input, user_input)), AssistantOpening>>

\* load_model succeeds (a failed load changes nothing).
load_model ==
    /\ ~llm
    /\ llm' = TRUE
    /\ UNCHANGED <<max_concurrent, active_requests, lock, monitor, metrics, response_times, req>>
    /\ UNCHANGED <<is_monitoring, threads, mlock, slock, call, snap>>
    /\ UNCHANGED <<construction, session, requests, balancer>>

\* clear_history: `with self.lock:` is entered.
ClearHistoryEnter(c) ==
    /\ AtRest(c) /\ ~Busy(c)
    /\ slock = NoThread
    /\ slock' = CallerThread(c)
    /\ call' = [call EXCEPT ![c] = "clear_history"]
    /\ UNCHANGED <<max_concurrent, active_requests, lock, llm, monitor, metrics, response_times, req>>
    /\ UNCHANGED <<is_monitoring, threads, mlock, snap>>
    /\ UNCHANGED <<construction, session, requests, balancer>>

\* clear_history: the history is emptied and the with block left.
ClearHistoryReturn(c) ==
    /\ call[c] = "clear_history"
    /\ chat_history' = <<>>
    /\ slock' = NoThread
    /\ call' = [call EXCEPT ![c] = "none"]
    /\ UNCHANGED <<max_concurrent, active_requests, lock, llm, monitor, metrics, response_times, req>>
    /\ UNCHANGED <<is_monitoring, threads, mlock, snap>>
    /\ UNCHANGED <<construction, total_chars, total_time, requests, balancer>>

\* Where a call goes when the base generator returns: the dispatcher's finally, or the
\* worker's callback.
AfterBase(c) == IF req[c].entry = "sync" THEN "finally" ELSE "callback"

\* The base generator starts: the unloaded notice, or record_request_start.
Enter(c) ==
    /\ req[c].pc = "enter"
    /\ IF llm
       THEN /\ MonitorStart
            /\ req' = [req EXCEPT ![c].pc = "prompt",
                                  ![c].starts = IF monitor THEN @ + 1 ELSE @]
       ELSE /\ UNCHANGED <<metrics, response_times, snap>>
            /\ req' = [req EXCEPT ![c].pc = "y_unloaded",
                                  ![c].stream = Append(@, "unloaded")]
    /\ UNCHANGED <<max_concurrent, active_requests, lock, llm, monitor>>
    /\ UNCHANGED <<is_monitoring, threads, mlock, slock, call>>
    /\ UNCHANGED <<construction, session, requests, balancer>>

\* The user turn is appended, the prompt built and the runner called for its stream.
BuildPrompt(c) ==
    /\ req[c].pc = "prompt"
    /\ slock = NoThread
    /\ chat_history' = Append(chat_history, Turn("user", req[c].user_input, req[c].user_input))
    /\ req' = [req EXCEPT ![c].pc = "stream", ![c].invoked = @ + 1,
                          ![c].prompt = _build_prompt(chat_history', req[c].user_input)]
    /\ UNCHANGED <<max_concurrent, active_requests, lock, llm, monitor, metrics, response_times>>
    /\ UNCHANGED <<is_monitoring, threads, mlock, slock, call, snap>>
    /\ UNCHANGED <<construction, total_chars, total_time, requests, balancer>>

\* The runner's stream gives a token, which is yielded.
RunnerToken(c) ==
    /\ req[c].pc = "stream"
    /\ req[c].token_count < MaxTokens
    /\ req' = [req EXCEPT ![c].pc = "y_token",
                          ![c].token_count = @ + 1,
                          ![c].stream = Append(@, "token")]
    /\ UNCHANGED <<max_concurrent, active_requests, lock, llm, monitor, metrics, response_times>>
    /\ UNCHANGED <<is_monitoring, threads, mlock, slock, call, snap>>
    /\ UNCHANGED <<construction, session, requests, balancer>>

\* The runner's stream is exhausted: generation_time is taken.  The prompt is not
\* used again.
RunnerExhausted(c) ==
    /\ req[c].pc = "stream"
    /\ \E generation_time \in GenerationTimes :
          req' = [req EXCEPT ![c].pc = "chars", ![c].generation_time = generation_time,
                                ![c].prompt = <<>>]
    /\ UNCHANGED <<max_concurrent, active_requests, lock, llm, monitor, metrics, response_times>>
    /\ UNCHANGED <<is_monitoring, threads, mlock, slock, call, snap>>
    /\ UNCHANGED <<construction, session, requests, balancer>>

\* `self.total_chars += len(response_text)`: self.total_chars is read.
LoadChars(c) ==
    /\ req[c].pc = "chars"
    /\ req' = [req EXCEPT ![c].pc = "chars_store", ![c].loaded = total_chars]
    /\ UNCHANGED <<max_concurrent, active_requests, lock, llm, monitor, metrics, response_times>>
    /\ UNCHANGED <<is_monitoring, threads, mlock, slock, call, snap>>
    /\ UNCHANGED <<construction, session, requests, balancer>>

\* `self.total_chars += len(response_text)`: the sum is stored to self.total_chars.
StoreChars(c) ==
    /\ req[c].pc = "chars_store"
    /\ total_chars' = req[c].loaded + Len(ResponseText(req[c].token_count))
    /\ req' = [req EXCEPT ![c].pc = "time", ![c].loaded = 0]
    /\ UNCHANGED <<max_concurrent, active_requests, lock, llm, monitor, metrics, response_times>>
    /\ UNCHANGED <<is_monitoring, threads, mlock, slock, call, snap>>
    /\ UNCHANGED <<construction, chat_history, total_time, requests, balancer>>

\* `self.total_time += generation_time`: self.total_time is read.
LoadTime(c) ==
    /\ req[c].pc = "time"
    /\ req' = [req EXCEPT ![c].pc = "time_store", ![c].loaded = total_time]
    /\ UNCHANGED <<max_concurrent, active_requests, lock, llm, monitor, metrics, response_times>>
    /\ UNCHANGED <<is_monitoring, threads, mlock, slock, call, snap>>
    /\ UNCHANGED <<construction, session, requests, balancer>>

\* `self.total_time += generation_time`: the sum is stored to self.total_time.
StoreTime(c) ==
    /\ req[c].pc = "time_store"
    /\ total_time' = req[c].loaded + req[c].generation_time
    /\ req' = [req EXCEPT ![c].pc = "record_end", ![c].loaded = 0]
    /\ UNCHANGED <<max_concurrent, active_requests, lock, llm, monitor, metrics, response_times>>
    /\ UNCHANGED <<is_monitoring, threads, mlock, slock, call, snap>>
    /\ UNCHANGED <<construction, chat_history, total_chars, requests, balancer>>

\* The except branch without its record_request_end(0, 0).
RunnerRaisesUnrecorded(c) ==
    /\ req[c].pc = "stream"
    /\ req' = [req EXCEPT ![c].pc = "y_error", ![c].stream = Append(@, "error"),
                          ![c].prompt = <<>>, ![c].user_input = NoInput]
    /\ UNCHANGED <<max_concurrent, active_requests, lock, llm, monitor, metrics, response_times>>
    /\ UNCHANGED <<is_monitoring, threads, mlock, slock, call, snap>>
    /\ UNCHANGED <<construction, session, requests, balancer>>

\* The runner raises: record_request_end(0, 0), then the error fragment is yielded.
RunnerRaises(c) ==
    /\ req[c].pc = "stream"
    /\ MonitorEnd(0, 0)
    /\ req' = [req EXCEPT ![c].pc = "y_error",
                          ![c].ends = IF monitor THEN Append(@, <<0, 0>>) ELSE @,
                          ![c].stream = Append(@, "error"),
                          ![c].prompt = <<>>, ![c].user_input = NoInput]
    /\ UNCHANGED <<max_concurrent, active_requests, lock, llm, monitor>>
    /\ UNCHANGED <<is_monitoring, threads, mlock, slock, call>>
    /\ UNCHANGED <<construction, session, requests, balancer>>

\* The success path without its record_request_end.
RecordEndSkipped(c) ==
    /\ req[c].pc = "record_end"
    /\ req' = [req EXCEPT ![c].pc = "assistant"]
    /\ UNCHANGED <<max_concurrent, active_requests, lock, llm, monitor, metrics, response_times>>
    /\ UNCHANGED <<is_monitoring, threads, mlock, slock, call, snap>>
    /\ UNCHANGED <<construction, session, requests, balancer>>

\* record_request_end(generation_time, token_count) after the stream is exhausted.
RecordEnd(c) ==
    /\ req[c].pc = "record_end"
    /\ LET generation_time == req[c].generation_time
       IN  /\ MonitorEnd(generation_time, req[c].token_count)
           /\ req' = [req EXCEPT ![c].pc = "assistant",
                                 ![c].ends = IF monitor
                                             THEN Append(@, <<generation_time, req[c].token_count>>)
                                             ELSE @]
    /\ UNCHANGED <<max_concurrent, active_requests, lock, llm, monitor>>
    /\ UNCHANGED <<is_monitoring, threads, mlock, slock, call>>
    /\ UNCHANGED <<construction, session, requests, balancer>>

\* The assistant turn is appended and the statistics fragment yielded.
AppendAssistant(c) ==
    /\ req[c].pc = "assistant"
    /\ slock = NoThread
    /\ LET clean_response == Strip(ResponseText(req[c].token_count))
       IN  chat_history' = Append(chat_history, Turn("assistant", clean_response, req[c].user_input))
    /\ req' = [req EXCEPT ![c].pc = "y_stats", ![c].stream = Append(@, "stats"),
                          ![c].user_input = NoInput]
    /\ UNCHANGED <<max_concurrent, active_requests, lock, llm, monitor, metrics, response_times>>
    /\ UNCHANGED <<is_monitoring, threads, mlock, slock, call, snap>>
    /\ UNCHANGED <<construction, total_chars, total_time, requests, balancer>>

\* generate_response without try/finally around the error fragment: after it the
\* generator returns with the slot still taken.
ResumeNoFinally(c) ==
    /\ ~Busy(c)
    /\ req[c].pc \in {"y_token", "y_stats", "y_error", "y_unloaded"}
    /\ req' = [req EXCEPT ![c].pc = IF req[c].pc = "y_token" THEN "stream"
                                    ELSE IF req[c].pc = "y_error" THEN "done"
                                    ELSE AfterBase(c)]
    /\ UNCHANGED <<max_concurrent, active_requests, lock, llm, monitor, metrics, response_times>>
    /\ UNCHANGED <<is_monitoring, threads, mlock, slock, call, snap>>
    /\ UNCHANGED <<construction, session, requests, balancer>>

\* The consumer asks for the next fragment at a yield of the base generator.
Resume(c) ==
    /\ ~Busy(c)
    /\ req[c].pc \in {"y_token", "y_stats", "y_error", "y_unloaded"}
    /\ req' = [req EXCEPT ![c].pc = IF req[c].pc = "y_token" THEN "stream" ELSE AfterBase(c)]
    /\ UNCHANGED <<max_concurrent, active_requests, lock, llm, monitor, metrics, response_times>>
    /\ UNCHANGED <<is_monitoring, threads, mlock, slock, call, snap>>
    /\ UNCHANGED <<construction, session, requests, balancer>>

----------------------------------------------------------------------------
(* ConcurrentLLM *)

\* The callbacks a caller may hand to generate_response_async.
Callbacks == {"none", "returns", "raises"}

\* generate_response_async: the worker thread is started.
generate_response_async(c) ==
    /\ ~Busy(c)
    /\ req[c].pc = "idle"
    /\ \E callback \in Callbacks :
          req' = [req EXCEPT ![c].entry = "async", ![c].pc = "enter",
                             ![c].callback = callback, ![c].user_input = NewInput(c)]
    /\ UNCHANGED <<max_concurrent, active_requests, lock, llm, monitor, metrics, response_times>>
    /\ UNCHANGED <<is_monitoring, threads, mlock, slock, call, snap>>
    /\ UNCHANGED <<construction, session, requests, balancer>>

\* The worker has the list of fragments: the callback, if any, is called with it; if
\* the call raises, the except branch calls the callback again, with the error message.
Callback(c) ==
    /\ req[c].pc = "callback"
    /\ req' = [req EXCEPT ![c].pc = "done",
                          ![c].callbacks = IF req[c].callback = "none" THEN <<>>
                                           ELSE IF req[c].callback = "returns"
                                                THEN <<"result">>
                                                ELSE <<"result", "error">>]
    /\ UNCHANGED <<max_concurrent, active_requests, lock, llm, monitor, metrics, response_times>>
    /\ UNCHANGED <<is_monitoring, threads, mlock, slock, call, snap>>
    /\ UNCHANGED <<construction, session, requests, balancer>>

\* generate_response, first next(): the check under the lock; the notice is yielded
\* inside the with block, so the generator is suspended holding the lock.
CheckFull(c) ==
    /\ ~Busy(c)
    /\ req[c].pc = "idle"
    /\ lock = 0
    /\ IF active_requests >= max_concurrent
       THEN /\ lock' = c
            /\ req' = [req EXCEPT ![c].entry = "sync", ![c].pc = "notice",
                                  ![c].user_input = NewInput(c),
                                  ![c].stream = Append(@, "notice")]
       ELSE /\ lock' = 0
            /\ req' = [req EXCEPT ![c].entry = "sync", ![c].pc = "wait",
                                  ![c].user_input = NewInput(c)]
    /\ UNCHANGED <<max_concurrent, active_requests, llm, monitor, metrics, response_times>>
    /\ UNCHANGED <<is_monitoring, threads, mlock, slock, call, snap>>
    /\ UNCHANGED <<construction, session, requests, balancer>>

\* The consumer resumes after the notice: the with block ends, the lock is released.
ResumeNotice(c) ==
    /\ ~Busy(c)
    /\ req[c].pc = "notice"
    /\ lock' = 0
    /\ req' = [req EXCEPT ![c].pc = "wait"]
    /\ UNCHANGED <<max_concurrent, active_requests, llm, monitor, metrics, response_times>>
    /\ UNCHANGED <<is_monitoring, threads, mlock, slock, call, snap>>
    /\ UNCHANGED <<construction, session, requests, balancer>>

\* The consumer closes the generator at the notice: GeneratorExit leaves the with block.
CloseNotice(c) ==
    /\ ~Busy(c)
    /\ req[c].pc = "notice"
    /\ lock' = 0
    /\ req' = [req EXCEPT ![c].pc = "done", ![c].closed = TRUE]
    /\ UNCHANGED <<max_concurrent, active_requests, llm, monitor, metrics, response_times>>
    /\ UNCHANGED <<is_monitoring, threads, mlock, slock, call, snap>>
    /\ UNCHANGED <<construction, session, requests, balancer>>

\* The wait loop without its test of the limit.
PollSlotNoLimit(c) ==
    /\ req[c].pc = "wait"
    /\ lock = 0
    /\ active_requests' = active_requests + 1
    /\ req' = [req EXCEPT ![c].pc = "enter", ![c].acquired = @ + 1]
    /\ UNCHANGED <<max_concurrent, lock, llm, monitor, metrics, response_times>>
    /\ UNCHANGED <<is_monitoring, threads, mlock, slock, call, snap>>
    /\ UNCHANGED <<construction, session, requests, balancer>>

\* One round of the wait loop: the slot is taken under the lock, or the thread sleeps.
PollSlot(c) ==
    /\ req[c].pc = "wait"
    /\ lock = 0
    /\ IF active_requests < max_concurrent
       THEN /\ active_requests' = active_requests + 1
            /\ req' = [req EXCEPT ![c].pc = "enter", ![c].acquired = @ + 1]
       ELSE /\ UNCHANGED active_requests
            /\ req' = [req EXCEPT ![c].slept = TRUE]
    /\ UNCHANGED <<max_concurrent, lock, llm, monitor, metrics, response_times>>
    /\ UNCHANGED <<is_monitoring, threads, mlock, slock, call, snap>>
    /\ UNCHANGED <<construction, session, requests, balancer>>

\* A close that ends the generator without running the finally block.
CloseNoFinally(c) ==
    /\ ~Busy(c)
    /\ req[c].entry = "sync"
    /\ req[c].pc \in {"y_token", "y_stats", "y_error", "y_unloaded"}
    /\ req' = [req EXCEPT ![c].pc = "done", ![c].closed = TRUE]
    /\ UNCHANGED <<max_concurrent, active_requests, lock, llm, monitor, metrics, response_times>>
    /\ UNCHANGED <<is_monitoring, threads, mlock, slock, call, snap>>
    /\ UNCHANGED <<construction, session, requests, balancer>>

\* The consumer closes the generator at a fragment: GeneratorExit is raised at the yield
\* of generate_response and the base generator is dropped at its own yield, where
\* `except Exception` does not catch it.
Close(c) ==
    /\ ~Busy(c)
    /\ req[c].entry = "sync"
    /\ req[c].pc \in {"y_token", "y_stats", "y_error", "y_unloaded"}
    /\ req' = [req EXCEPT ![c].pc = "finally", ![c].closed = TRUE]
    /\ UNCHANGED <<max_concurrent, active_requests, lock, llm, monitor, metrics, response_times>>
    /\ UNCHANGED <<is_monitoring, threads, mlock, slock, call, snap>>
    /\ UNCHANGED <<construction, session, requests, balancer>>

\* finally: the slot is released under the lock.
Release(c) ==
    /\ req[c].pc = "finally"
    /\ lock = 0
    /\ active_requests' = Max(0, active_requests - 1)
    /\ req' = [req EXCEPT ![c].pc = "done", ![c].released = @ + 1]
    /\ UNCHANGED <<max_concurrent, lock, llm, monitor, metrics, response_times>>
    /\ UNCHANGED <<is_monitoring, threads, mlock, slock, call, snap>>
    /\ UNCHANGED <<construction, session, requests, balancer>>

----------------------------------------------------------------------------

Step(c) ==
    \/ CheckFull(c)
    \/ ResumeNotice(c)
    \/ CloseNotice(c)
    \/ PollSlot(c)
    \/ Enter(c)
    \/ BuildPrompt(c)
    \/ RunnerToken(c)
    \/ RunnerExhausted(c)
    \/ RunnerRaises(c)
    \/ LoadChars(c)
    \/ StoreChars(c)
    \/ LoadTime(c)
    \/ StoreTime(c)
    \/ RecordEnd(c)
    \/ AppendAssistant(c)
    \/ Resume(c)
    \/ Close(c)
    \/ Release(c)

\* Callers of generate_response, with a monitor attached.
Next ==
    \/ load_model
    \/ \E c \in Callers : Step(c)

Spec == Init /\ [][Next]_vars

\* Callers of both entry points, generate_response and generate_response_async.
EntryNext ==
    \/ Next
    \/ \E c \in Callers : generate_response_async(c)
    \/ \E c \in Callers : Callback(c)

EntrySpec == Init /\ [][EntryNext]_vars

\* A caller whose call is over submits again.
Resubmit(c) ==
    /\ ~Busy(c)
    /\ req[c].pc = "done"
    /\ req' = [req EXCEPT ![c] = NewCall]
    /\ UNCHANGED <<max_concurrent, active_requests, lock, llm, monitor, metrics, response_times>>
    /\ UNCHANGED <<is_monitoring, threads, mlock, slock, call, snap>>
    /\ UNCHANGED <<construction, session, requests, balancer>>

FairInit == Constructed(FALSE)

\* The session stays small: the history is cleared before it outgrows MaxFairTurns
\* entries, and the statistics count up to MaxFairTotal.
FairSession ==
    /\ Len(chat_history) <= MaxFairTurns
    /\ total_chars <= MaxFairTotal
    /\ total_time <= MaxFairTotal

\* A step of a caller that submits again and again and clears the history between two
\* fragments or two calls.
FairStep(c) ==
    /\ \/ Step(c)
       \/ Resubmit(c)
       \/ ClearHistoryEnter(c)
       \/ ClearHistoryReturn(c)
    /\ FairSession'

FairNext ==
    \/ load_model
    \/ \E c \in Callers : FairStep(c)

\* Every caller's thread keeps being scheduled: a step it can take, and that changes
\* the state, is not put off for ever.  A poll that finds no free slot only sleeps.
FairSpec ==
    /\ FairInit
    /\ [][FairNext]_vars
    /\ \A c \in Callers : WF_vars(Step(c) \/ Resubmit(c) \/ ClearHistoryReturn(c))
    /\ WF_vars(load_model)

\* The monitor on its own: a thread that starts and stops it, the threads of
\* _monitor_loop, clients that call record_request_start and record_request_end, and
\* callers of get_metrics that read what they got.
\* The thread that shows the dashboard.
Reader == CHOOSE c \in Callers : TRUE

MonitorInit == Init /\ max_concurrent = MaxConcurrent

MonitorNext ==
    \/ start_monitoring
    \/ \E t \in Samplers : SamplerStep(t)
    \/ RequestStarted
    \/ \E duration \in Durations, tokens \in TokenCounts :
          Len(response_times) < MaxRecorded /\ RequestEnded(duration, tokens)
    \/ GetMetricsEnter(Reader)
    \/ GetMetricsReturn(Reader, TRUE)
    \/ ReadField(Reader)
    \/ Discard(Reader)

MonitorSpec == MonitorInit /\ [][MonitorNext]_vars

\* Callers of generate_response whose threads, between two fragments, also look at the
\* metrics or clear the history, while the monitor's thread samples.
LockNext ==
    \/ Next
    \/ start_monitoring
    \/ \E t \in Samplers : SamplerStep(t)
    \/ \E c \in Callers : GetMetricsEnter(c)
    \/ \E c \in Callers : GetMetricsReturn(c, FALSE)
    \/ \E c \in Callers : ClearHistoryEnter(c)
    \/ \E c \in Callers : ClearHistoryReturn(c)

LockSpec == Init /\ [][LockNext]_vars

\* The monitor's counters: clients record requests while the thread, if started,
\* samples.
CounterNext ==
    \/ start_monitoring
    \/ \E t \in Samplers : SamplerStep(t)
    \/ RequestStarted
    \/ \E duration \in Durations, tokens \in TokenCounts :
          Len(response_times) < MaxRecorded /\ RequestEnded(duration, tokens)

CounterSpec == MonitorInit /\ [][CounterNext]_vars

\* The monitor switched on and off, while a client starts requests and another thread
\* calls get_metrics.  A thread in _monitor_loop is scheduled again and again and its
\* sleeps end.
SamplerNext ==
    \/ start_monitoring
    \/ stop_monitoring
    \/ \E t \in Samplers : SamplerStep(t)
    \/ RequestStarted
    \/ GetMetricsEnter(Reader)
    \/ GetMetricsReturn(Reader, FALSE)

SamplerSpec ==
    /\ MonitorInit
    /\ [][SamplerNext]_vars
    /\ \A t \in Samplers : WF_vars(SamplerStep(t))

\* The monitor while requests keep ending: the log fills up between the ticks of the
\* thread, if one was started.  Failed requests report (0, 0), finished ones their
\* generation time and token count.
LogNext ==
    \/ start_monitoring
    \/ \E t \in Samplers : SamplerStep(t)
    \/ /\ Len(response_times) < MaxResponseTimes + MaxOverflow
       /\ Count(response_times, 0) < MaxFailed
       /\ RequestEnded(0, 0)
    \/ \E generation_time \in GenerationTimes :
          /\ Len(response_times) < MaxResponseTimes + MaxOverflow
          /\ RequestEnded(generation_time, MaxTokens)

LogSpec == MonitorInit /\ [][LogNext]_vars

\* A long conversation is at most MaxTurns entries long, with statistics up to MaxTotal.
LongSession ==
    /\ Len(chat_history) <= MaxTurns
    /\ total_chars <= MaxTotal
    /\ total_time <= MaxTotal

\* A step of the one user of a conversation: a request after the other, the history
\* cleared now and then.
HistoryStep(c) ==
    /\ \/ Step(c)
       \/ Resubmit(c)
       \/ ClearHistoryEnter(c)
       \/ ClearHistoryReturn(c)
    /\ LongSession'

HistoryInit == FairInit /\ max_concurrent = MaxConcurrent

HistoryNext ==
    \/ load_model
    \/ HistoryStep(Reader)

HistorySpec == HistoryInit /\ [][HistoryNext]_vars

\* Callers of generate_response, one call each, whose threads also clear the history,
\* between two fragments or outside a call.
SessionNext ==
    \/ Next
    \/ \E c \in Callers : ClearHistoryEnter(c)
    \/ \E c \in Callers : ClearHistoryReturn(c)

SessionSpec == FairInit /\ [][SessionNext]_vars

\* Before a constructor is called: its backend and max_concurrent arguments, and what
\* the detection will find on the machine.
ConstructInit ==
    /\ max_concurrent \in LimitArguments
    /\ Fresh(TRUE)
    /\ available_backends \in [Backends -> BOOLEAN]
    /\ backend \in BackendArguments
    /\ selected_backend = "unset"
    /\ constructed = "none"

\* SimpleLLM(model_path, backend): the backend is selected from the detection result.
SimpleLLMInit ==
    /\ constructed = "none"
    /\ selected_backend' = SelectedBackend(available_backends, backend)
    /\ constructed' = "SimpleLLM"
    /\ UNCHANGED <<max_concurrent, active_requests, lock, llm, monitor, metrics, response_times, req>>
    /\ UNCHANGED <<is_monitoring, threads, mlock, slock, call, snap>>
    /\ UNCHANGED <<available_backends, backend, session, requests, balancer>>

\* ConcurrentLLM(model_path, max_concurrent, backend=backend): base_llm is constructed,
\* max_concurrent stored, and ThreadPoolExecutor(max_workers=max_concurrent) created,
\* which raises ValueError when max_workers <= 0.
ConcurrentLLMInit ==
    /\ constructed = "none"
    /\ selected_backend' = SelectedBackend(available_backends, backend)
    /\ constructed' = IF max_concurrent <= 0 THEN "ValueError" ELSE "ConcurrentLLM"
    /\ UNCHANGED <<max_concurrent, active_requests, lock, llm, monitor, metrics, response_times, req>>
    /\ UNCHANGED <<is_monitoring, threads, mlock, slock, call, snap>>
    /\ UNCHANGED <<available_backends, backend, session, requests, balancer>>

\* The constructors, called with any arguments on any machine.
ConstructNext ==
    \/ SimpleLLMInit
    \/ ConcurrentLLMInit

ConstructSpec == ConstructInit /\ [][ConstructNext]_vars

----------------------------------------------------------------------------
(* RequestQueue *)

\* The request_data of the model: two dicts that are not equal.
RequestData == {"a", "b"}

\* `if priority <= 3`
HighPriority == 3

\* The priority arguments of the model: high, the highest that is still high, normal.
Priorities == {1, HighPriority, HighPriority + 1}

\* (priority, request_data) < (priority, request_data), as the heap compares its
\* entries: tuples compare by their first elements that differ, equal tuples are not
\* less, and '<' between two dicts raises TypeError.
Less(x, y) ==
    IF x[1] # y[1]
    THEN (IF x[1] < y[1] THEN "True" ELSE "False")
    ELSE (IF x[2] = y[2] THEN "False" ELSE "TypeError")

\* heap[pos] of the list, whose positions start at 0.
At(heap, pos) == heap[pos + 1]

Swap(heap, i, j) == [heap EXCEPT ![i + 1] = heap[j + 1], ![j + 1] = heap[i + 1]]

Sifted(heap, pos, raised) == [heap |-> heap, pos |-> pos, raised |-> raised]

\* heapq's _siftdown: the entry at pos moves towards the root while it is less than
\* its parent.  A comparison that raises leaves the list as it is at that moment.
RECURSIVE _siftdown(_, _, _)
_siftdown(heap, startpos, pos) ==
    IF pos <= startpos
    THEN Sifted(heap, pos, FALSE)
    ELSE LET parentpos == (pos - 1) \div 2
             cmp == Less(At(heap, pos), At(heap, parentpos))
         IN  CASE cmp = "TypeError" -> Sifted(heap, pos, TRUE)
               [] cmp = "False" -> Sifted(heap, pos, FALSE)
               [] cmp = "True" -> _siftdown(Swap(heap, pos, parentpos), startpos, parentpos)

\* The loop of heapq's _siftup: the smaller child moves up until pos is a leaf.
RECURSIVE BubbleUp(_, _)
BubbleUp(heap, pos) ==
    IF pos >= Len(heap) \div 2
    THEN Sifted(heap, pos, FALSE)
    ELSE LET childpos == 2 * pos + 1
             cmp == IF childpos + 1 < Len(heap)
                    THEN Less(At(heap, childpos), At(heap, childpos + 1))
                    ELSE "True"
             smaller == IF cmp = "False" THEN childpos + 1 ELSE childpos
         IN  IF cmp = "TypeError"
             THEN Sifted(heap, pos, TRUE)
             ELSE BubbleUp(Swap(heap, smaller, pos), smaller)

\* heapq's _siftup: the children are moved up to a leaf, and the entry that came to
\* the leaf is sifted down from there.
_siftup(heap, pos) ==
    LET leaf == BubbleUp(heap, pos)
    IN  IF leaf.raised THEN leaf ELSE _siftdown(leaf.heap, pos, leaf.pos)

\* heapq.heappush: the item is appended and sifted down.
heappush(heap, item) == _siftdown(Append(heap, item), 0, Len(heap))

\* heapq.heappop of a list that is not empty: the last entry is taken off and put in
\* place of the first, which is returned after the sift; when a comparison of the
\* sift raises, the first entry is returned to nobody.
heappop(heap) ==
    LET lastelt == heap[Len(heap)]
        rest == SubSeq(heap, 1, Len(heap) - 1)
        sifted == _siftup([rest EXCEPT ![1] = lastelt], 0)
    IN  IF rest = <<>>
        THEN [heap |-> rest, item |-> lastelt, raised |-> FALSE]
        ELSE [heap |-> sifted.heap, item |-> heap[1], raised |-> sifted.raised]

\* add_request(request_data, priority), by any thread.  A high priority goes to the
\* priority queue, which is never full; a normal one to the queue, where put raises
\* Full when the queue has held max_size entries for the second of its timeout.  Only
\* Full is caught: a TypeError of the heap leaves add_request as an exception, after
\* the item was appended.
add_request(request_data, priority) ==
    /\ priority <= HighPriority => Len(priority_queue) < MaxPending
    /\ IF priority <= HighPriority
       THEN LET pushed == heappush(priority_queue, <<priority, request_data>>)
            IN  /\ priority_queue' = pushed.heap
                /\ added' = [request_data |-> request_data, priority |-> priority,
                             result |-> IF pushed.raised THEN "TypeError" ELSE "True"]
                /\ UNCHANGED queue
       ELSE /\ queue' = IF Len(queue) < MaxSize THEN Append(queue, request_data) ELSE queue
            /\ added' = [request_data |-> request_data, priority |-> priority,
                         result |-> IF Len(queue) < MaxSize THEN "True" ELSE "False"]
            /\ UNCHANGED priority_queue
    /\ UNCHANGED next_request
    /\ UNCHANGED <<max_concurrent, active_requests, lock, llm, monitor, metrics, response_times, req>>
    /\ UNCHANGED <<is_monitoring, threads, mlock, slock, call, snap>>
    /\ UNCHANGED <<construction, session, balancer>>

\* get_next_request, first part: priority_queue.get(block=False).  An entry is
\* returned, or the TypeError of the heap leaves the call; queue.Empty leads on to
\* the normal queue.
GetPriority ==
    /\ next_request.pc = "idle"
    /\ IF priority_queue # <<>>
       THEN LET popped == heappop(priority_queue)
            IN  /\ priority_queue' = popped.heap
                /\ next_request' = [pc |-> "idle",
                                    result |-> IF popped.raised
                                               THEN Outcome("TypeError", "")
                                               ELSE Outcome("request", popped.item[2])]
       ELSE /\ next_request' = [pc |-> "normal", result |-> Outcome("none", "")]
            /\ UNCHANGED priority_queue
    /\ UNCHANGED <<queue, added>>
    /\ UNCHANGED <<max_concurrent, active_requests, lock, llm, monitor, metrics, response_times, req>>
    /\ UNCHANGED <<is_monitoring, threads, mlock, slock, call, snap>>
    /\ UNCHANGED <<construction, session, balancer>>

\* get_next_request, second part: queue.get(timeout=timeout) returns the oldest entry,
\* or the call returns None when the queue stayed empty for the timeout.
GetNormal ==
    /\ next_request.pc = "normal"
    /\ IF queue # <<>>
       THEN /\ queue' = Tail(queue)
            /\ next_request' = [pc |-> "idle", result |-> Outcome("request", Head(queue))]
       ELSE /\ next_request' = [pc |-> "idle", result |-> Outcome("None", "")]
            /\ UNCHANGED queue
    /\ UNCHANGED <<priority_queue, added>>
    /\ UNCHANGED <<max_concurrent, active_requests, lock, llm, monitor, metrics, response_times, req>>
    /\ UNCHANGED <<is_monitoring, threads, mlock, slock, call, snap>>
    /\ UNCHANGED <<construction, session, balancer>>

\* Producers that add any request at any time, and one consumer.
QueueNext ==
    \/ \E request_data \in RequestData, priority \in Priorities :
           add_request(request_data, priority)
    \/ GetPriority
    \/ GetNormal

QueueSpec == HistoryInit /\ [][QueueNext]_vars

----------------------------------------------------------------------------
(* LoadBalancer *)

\* The instances a LoadBalancer may be given.
AllInstances == [i \in 1..MaxInstances |-> <<"llm", i>>]

InstanceLists == {SubSeq(AllInstances, 1, n) : n \in 0..MaxInstances}

\* The instance_id arguments of mark_request_complete: the ids and one beyond on
\* either side.
InstanceIds == (0 - 1)..MaxInstances

\* min(self.request_counts) of a list that is not empty.
MinRequests(counts) ==
    CHOOSE m \in {counts[i] : i \in DOMAIN counts} : \A i \in DOMAIN counts : m <= counts[i]

\* The loop that stops at the last index whose count is min_requests.
LastWith(counts, min_requests) ==
    {i \in 0..(Len(counts) - 1) :
        /\ At(counts, i) = min_requests
        /\ \A j \in (i + 1)..(Len(counts) - 1) : At(counts, j) # min_requests}

\* `for i, count in enumerate(self.request_counts): if count == min_requests`: the
\* index at which the loop returns, if it returns.
FirstWith(counts, min_requests) ==
    {i \in 0..(Len(counts) - 1) :
        /\ At(counts, i) = min_requests
        /\ \A j \in 0..(i - 1) : At(counts, j) # min_requests}

\* get_next_instance, under the lock.  min() of an empty list raises ValueError.  The
\* loop returns at the first count that equals the minimum; the code after the loop
\* returns the instance at current_index and moves the index on.
get_next_instance ==
    /\ Sum(issued) < MaxIssued
    /\ IF request_counts = <<>>
       THEN /\ instance' = Chosen("ValueError", NoInstance, 0)
            /\ UNCHANGED <<current_index, request_counts, issued>>
       ELSE LET min_requests == MinRequests(request_counts)
                found == FirstWith(request_counts, min_requests)
            IN  IF found # {}
                THEN \E i \in found :
                        /\ request_counts' = [request_counts EXCEPT ![i + 1] = @ + 1]
                        /\ instance' = Chosen("instance", At(llm_instances, i), i)
                        /\ issued' = [issued EXCEPT ![i + 1] = @ + 1]
                        /\ UNCHANGED current_index
                ELSE /\ instance' = Chosen("instance", At(llm_instances, current_index),
                                           current_index)
                     /\ current_index' = (current_index + 1) % Len(llm_instances)
                     /\ issued' = [issued EXCEPT ![current_index + 1] = @ + 1]
                     /\ UNCHANGED request_counts
    /\ UNCHANGED <<llm_instances, completed, unmatched>>
    /\ UNCHANGED <<max_concurrent, active_requests, lock, llm, monitor, metrics, response_times, req>>
    /\ UNCHANGED <<is_monitoring, threads, mlock, slock, call, snap>>
    /\ UNCHANGED <<construction, session, requests>>

\* mark_request_complete(instance_id), under the lock: the count of an id in range goes
\* down by one, not below 0; another id changes nothing.
mark_request_complete(instance_id) ==
    /\ 0 <= instance_id /\ instance_id < Len(request_counts) => Sum(completed) < MaxCompleted
    /\ IF 0 <= instance_id /\ instance_id < Len(request_counts)
       THEN /\ request_counts' = [request_counts EXCEPT ![instance_id + 1] = Max(0, @ - 1)]
            /\ completed' = [completed EXCEPT ![instance_id + 1] = @ + 1]
            /\ unmatched' = (unmatched \/ At(completed, instance_id) >= At(issued, instance_id))
       ELSE UNCHANGED <<request_counts, completed, unmatched>>
    /\ UNCHANGED <<llm_instances, current_index, instance, issued>>
    /\ UNCHANGED <<max_concurrent, active_requests, lock, llm, monitor, metrics, response_times, req>>
    /\ UNCHANGED <<is_monitoring, threads, mlock, slock, call, snap>>
    /\ UNCHANGED <<construction, session, requests>>

\* A LoadBalancer over any list of instances, beside freshly constructed services.
BalancerInit ==
    /\ max_concurrent = MaxConcurrent
    /\ Services(TRUE)
    /\ available_backends = Detected
    /\ backend = "auto"
    /\ selected_backend = _select_best_backend(available_backends)
    /\ constructed = "ConcurrentLLM"
    /\ \E instances \in InstanceLists : LoadBalancerInit(instances)

\* Threads that ask for instances and report completions, with any id.
BalancerNext ==
    \/ get_next_instance
    \/ \E instance_id \in InstanceIds : mark_request_complete(instance_id)

BalancerSpec == BalancerInit /\ [][BalancerNext]_vars

----------------------------------------------------------------------------
(* The claims *)

Holders == {c \in Callers : HoldsSlot(c)}

AllEnded == \A c \in Callers : ~Pending(c)

\* C1: in every reachable state 0 <= active_requests <= max_concurrent, and a step
\* changes active_requests only by the +1 of a caller's slot acquisition in the wait
\* loop or by the -1 of a caller's release in the finally block.
C1_ActiveWithinLimit ==
    /\ [](0 <= active_requests /\ active_requests <= max_concurrent)
    /\ [][\/ active_requests' = active_requests
          \/ /\ active_requests' = active_requests + 1
             /\ \E c \in Callers : /\ req[c].pc = "wait"
                                   /\ req'[c].acquired = req[c].acquired + 1
          \/ /\ active_requests' = active_requests - 1
             /\ \E c \in Callers : /\ req[c].pc = "finally"
                                   /\ req'[c].released = req[c].released + 1]_vars

\* C1 witness: the limit is reached and a caller has polled in vain.
C1_Witness ==
    /\ active_requests = max_concurrent
    /\ \E c \in Callers : req[c].pc = "wait" /\ req[c].slept

\* C2: the number of generations in flight against the runner (base_llm.generate_response
\* invocations that started on the loaded runner and have not finished) never exceeds
\* max_concurrent, whichever entry point submitted them.
C2_InFlightWithinLimit ==
    Cardinality({c \in Callers : InFlight(c)}) <= max_concurrent

\* C3: a call that acquired a slot releases it exactly once on every exit path and a
\* call that never acquired releases nothing; active_requests is the number of slots
\* held, so it is 0 again once all calls have ended; the release never meets
\* active_requests = 0, so max(0, ...) never clamps.
C3_ReleasedExactlyOnce ==
    /\ \A c \in Callers :
          /\ req[c].acquired <= 1
          /\ req[c].released <= req[c].acquired
          /\ req[c].pc = "done" => req[c].released = req[c].acquired
          /\ req[c].pc = "finally" => active_requests - 1 >= 0
    /\ active_requests = Cardinality(Holders)
    /\ AllEnded => active_requests = 0

\* C3 witness: all calls have ended, one closed at the notice before it acquired, one
\* closed in mid-stream after it acquired.
C3_Witness ==
    /\ \A c \in Callers : req[c].pc = "done"
    /\ \E c, d \in Callers :
          /\ req[c].closed /\ req[c].acquired = 0 /\ req[c].stream = <<"notice">>
          /\ req[d].closed /\ req[d].released = 1 /\ Last(req[d].stream) = "token"

\* C4: a call closed by its caller after record_request_start is recorded as a failed
\* completion: record_request_end is called once for it, with zero duration when the
\* stream was cut before its end, and once all calls have ended the monitor's
\* active_requests is 0 again.
C4_CloseRecordedAsFailure ==
    /\ \A c \in Callers :
          (req[c].pc = "done" /\ req[c].closed /\ req[c].starts = 1) =>
              /\ Len(req[c].ends) = 1
              /\ Last(req[c].stream) = "token" => req[c].ends[1][1] = 0
    /\ AllEnded => metrics.active_requests = 0

\* C5: when the runner raises, the stream of the call holds exactly one error fragment,
\* as its last item, record_request_end(0, 0) is the one record_request_end call of the
\* request, the runner was invoked once, the slot is released when the call is over,
\* and the step leaves the other calls, active_requests and the lock as they were.
C5_RunnerErrorContained ==
    /\ [](\A c \in Callers :
            Count(req[c].stream, "error") > 0 =>
                /\ Count(req[c].stream, "error") = 1
                /\ Last(req[c].stream) = "error"
                /\ monitor => req[c].ends = << <<0, 0>> >>
                /\ req[c].invoked = 1
                /\ req[c].pc = "done" => req[c].acquired = 1 /\ req[c].released = 1)
    /\ [][\A c \in Callers :
            Count(req'[c].stream, "error") > Count(req[c].stream, "error") =>
                /\ \A d \in Callers \ {c} : req'[d] = req[d]
                /\ active_requests' = active_requests
                /\ lock' = lock]_vars

\* C5 witness: a call whose runner raised after a token is over, its slot released,
\* while another call is in flight holding its slot.
C5_Witness ==
    \E c, d \in Callers :
        /\ req[c].pc = "done" /\ req[c].stream = <<"token", "error">>
        /\ req[c].released = 1 /\ ~req[c].closed
        /\ monitor /\ req[c].ends = << <<0, 0>> >>
        /\ d # c /\ InFlight(d) /\ HoldsSlot(d)

\* C6: a call that waits for a slot eventually acquires one.
C6_NoStarvation ==
    \A c \in Callers : (req[c].pc = "wait") ~> (req[c].pc = "enter")

\* A step of the caller that moves its call on.
Progress(c) == Step(c) /\ req'[c].pc # req[c].pc

\* C7: with max_concurrent = 1 no two callers hold the slot, in every state with a call
\* under way some such call can move on, and once all calls have ended
\* active_requests is 0.
C7_DeadlockFree ==
    max_concurrent = 1 =>
        /\ Cardinality(Holders) <= 1
        /\ (\E w \in Callers : Pending(w)) =>
               \E c \in Callers : Pending(c) /\ ENABLED Progress(c)
        /\ AllEnded => active_requests = 0

\* C7 witness: with max_concurrent = 1 a caller has polled in vain while the holder of
\* the slot stands at the error fragment of a runner that raised.
C7_Witness ==
    /\ max_concurrent = 1
    /\ \E w, h \in Callers :
          /\ req[w].pc = "wait" /\ req[w].slept
          /\ req[h].pc = "y_error" /\ HoldsSlot(h)

\* C8: a call gets the notice exactly once if it had to wait (it slept in the wait
\* loop) and not at all if it acquired without sleeping; the notice is the first
\* fragment of its stream.
C8_NoticeIffWaited ==
    \A c \in Callers :
        /\ req[c].slept => Count(req[c].stream, "notice") = 1
        /\ (req[c].acquired = 1 /\ ~req[c].slept) => Count(req[c].stream, "notice") = 0
        /\ Count(req[c].stream, "notice") > 0 => req[c].stream[1] = "notice"

\* C9: a request whose runner was invoked and whose stream the caller read to its end
\* has had its one record_request_end call by the time the generator reaches the
\* release, and every record_request_end call is made while the call holds its slot.
C9_RecordBeforeEndOfStream ==
    /\ [](\A c \in Callers :
            (req[c].invoked = 1 /\ ~req[c].closed /\ req[c].pc \in {"finally", "done"}) =>
                Len(req[c].ends) = 1)
    /\ [][\A c \in Callers :
            req'[c].ends # req[c].ends =>
                /\ HoldsSlot(c)
                /\ req'[c].acquired > req'[c].released
                /\ req'[c].pc \notin {"finally", "done"}]_vars

\* C9 witness: a call read to the end of a successful generation, recorded once with
\* its generation time.
C9_Witness ==
    \E c \in Callers :
        /\ req[c].pc = "done" /\ ~req[c].closed
        /\ req[c].stream = <<"token", "stats">>
        /\ Len(req[c].ends) = 1 /\ req[c].ends[1][1] > 0

\* C10: once all calls have ended, none of them closed by its caller, and k of them
\* found the runner loaded, total_requests = k, the monitor's active_requests = 0, the
\* response-time log holds k durations, and each of the k made one
\* record_request_start and one record_request_end call.
C10_RecordedExactlyOnce ==
    (AllEnded /\ \A c \in Callers : ~req[c].closed) =>
        LET served == {c \in Callers : req[c].invoked = 1}
        IN  /\ metrics.total_requests = Cardinality(served)
            /\ metrics.active_requests = 0
            /\ Len(response_times) = Cardinality(served)
            /\ \A c \in served : req[c].starts = 1 /\ Len(req[c].ends) = 1

\* C10 witness: every caller's request found the runner loaded and is over, one by a
\* runner error and one by success.
C10_Witness ==
    /\ \A c \in Callers : req[c].pc = "done" /\ ~req[c].closed /\ req[c].invoked = 1
    /\ \E c, d \in Callers :
          /\ Last(req[c].stream) = "error"
          /\ Last(req[d].stream) = "stats"
    /\ metrics.total_requests = NumCallers

\* C11: the response-time log never holds more than 100 entries, whether or not a
\* sampler thread runs and wherever the record_request_end calls fall between its
\* ticks.
C11_LogWithinCap == Len(response_times) <= MaxResponseTimes

\* C12: after every tick of a sampler thread that found the log non-empty,
\* avg_response_time is the arithmetic mean of the entries the log retains after the
\* tick (sum / count = Sum(retained) / Len(retained)).
C12_AverageOfRetained ==
    [][\A t \in Samplers :
          (threads[t] = "probe" /\ threads'[t] = "sleep" /\ response_times' # <<>>) =>
              metrics'.avg_response_time[1] * Len(response_times') =
                  Sum(response_times') * metrics'.avg_response_time[2]]_vars

\* C13: what get_metrics returned is a copy: no step taken while a caller holds it
\* changes any field of the object the caller holds.
C13_SnapshotUnchanged ==
    [][\A c \in Callers :
          (snap[c].obj # "none" /\ snap'[c].obj = snap[c].obj) =>
              Deref(snap[c].obj)' = Deref(snap[c].obj)]_vars

\* C14: the fields a caller has read of what get_metrics returned all come from one
\* single value the metrics store has had since the return.
C14_NoTornSnapshot ==
    \A c \in Callers :
        snap[c].obj # "none" => \E m \in snap[c].states : Agrees(m, snap[c].seen)

\* C15: a sampler thread never holds the monitor's lock while it is in the timed probe,
\* so that record_request_start, record_request_end and get_metrics need not wait for
\* the probe's interval.
C15_ProbeOutsideLock ==
    \A t \in Samplers : threads[t] = "probe" => mlock # SamplerThread(t)

\* Arguments of record_request_end on either side of 0.
EndArguments == (0 - 1)..(MaxTokens + 1)

\* C18: record_request_end(duration, tokens) takes 1 off active_requests, not below 0;
\* with duration <= 0 or tokens <= 0 it leaves tokens_per_second as it was, with
\* duration > 0 and tokens > 0 it sets it to tokens / duration; in either case the
\* other fields stay.  This for the function on every reachable value of the metrics,
\* and for every step that appends a duration to the log.
C18_EndUpdatesThroughput ==
    /\ [](\A duration \in EndArguments, tokens \in EndArguments :
             LET m == record_request_end(metrics, duration, tokens)
             IN  /\ m.active_requests =
                        IF metrics.active_requests > 0 THEN metrics.active_requests - 1 ELSE 0
                 /\ (duration <= 0 \/ tokens <= 0) =>
                        m.tokens_per_second = metrics.tokens_per_second
                 /\ (duration > 0 /\ tokens > 0) => m.tokens_per_second = <<tokens, duration>>
                 /\ m.total_requests = metrics.total_requests
                 /\ m.avg_response_time = metrics.avg_response_time
                 /\ m.cpu_percent = metrics.cpu_percent)
    /\ [][Len(response_times') = Len(response_times) + 1 =>
             /\ metrics'.active_requests =
                    IF metrics.active_requests > 0 THEN metrics.active_requests - 1 ELSE 0
             /\ Last(response_times') <= 0 =>
                    metrics'.tokens_per_second = metrics.tokens_per_second
             /\ metrics'.tokens_per_second # metrics.tokens_per_second =>
                    /\ metrics'.tokens_per_second[2] = Last(response_times')
                    /\ metrics'.tokens_per_second[1] > 0]_vars

\* C18 witness: a request ended with (1, 1), which set tokens_per_second to 1 / 1, and
\* then requests ended with zero duration, one of them with no request active, which
\* left it.
C18_Witness ==
    /\ Len(response_times) = MaxRecorded
    /\ response_times[1] = 1 /\ Last(response_times) = 0
    /\ metrics.tokens_per_second = <<1, 1>>
    /\ metrics.active_requests = 0 /\ metrics.total_requests = 1

\* C19: the monitor's active_requests is never negative and total_requests never
\* decreases, whatever the order of record_request_start, record_request_end (with or
\* without a start before it) and sampler ticks.
C19_CountersSound ==
    /\ [](metrics.active_requests >= 0)
    /\ [][metrics'.total_requests >= metrics.total_requests]_vars

\* C19 witness: requests ended before any started, a tick has stored its reading and
\* the average, and then a request started.
C19_Witness ==
    /\ metrics.total_requests = 1 /\ metrics.active_requests = 1
    /\ Len(response_times) = MaxRecorded
    /\ metrics.cpu_percent # 0
    /\ metrics.avg_response_time[2] = MaxRecorded

\* A call of start_monitoring, or of stop_monitoring, that changes the state.
StartChanges == start_monitoring /\ vars' # vars

StopChanges == stop_monitoring /\ vars' # vars

\* A call of start_monitoring that does not leave the monitor running with exactly one
\* thread more than before, started on the loop.
StartFails ==
    /\ start_monitoring
    /\ ~(/\ is_monitoring'
         /\ Cardinality({t \in Samplers : threads'[t] # threads[t]}) = 1
         /\ \A t \in Samplers : threads'[t] # threads[t] =>
                threads[t] = "unborn" /\ threads'[t] = "loop")

\* A call of stop_monitoring that leaves the monitor running.
StopFails == stop_monitoring /\ is_monitoring'

\* C16: Running is is_monitoring, Stopped its negation.  start_monitoring while
\* Running changes nothing (no thread is created), stop_monitoring while Stopped
\* changes nothing, start_monitoring from Stopped can be called and every such call
\* leads to Running with one new thread, stop_monitoring from Running can be called
\* and every such call leads to Stopped.
C16_TwoStateSampler ==
    /\ is_monitoring => ~ENABLED StartChanges
    /\ ~is_monitoring => ~ENABLED StopChanges
    /\ (~is_monitoring /\ \E t \in Samplers : threads[t] = "unborn") => ENABLED start_monitoring
    /\ ~is_monitoring => ~ENABLED StartFails
    /\ is_monitoring => ENABLED stop_monitoring /\ ~ENABLED StopFails

\* C16 witness: the monitor was started, stopped and started again, and is running.
C16_Witness ==
    /\ is_monitoring
    /\ \A t \in Samplers : threads[t] # "unborn"

\* C17: a probe failure leaves the monitor's lock free and the thread in its backoff
\* sleep; a thread leaves _monitor_loop only after is_monitoring was cleared; and a
\* thread in the backoff sleep eventually stands at the with statement of a next tick,
\* unless the monitor is stopped.
C17_ProbeFailureSurvived ==
    /\ [](\A t \in Samplers : threads[t] = "backoff" => mlock # SamplerThread(t))
    /\ [][\A t \in Samplers :
             /\ threads[t] = "probe" => threads'[t] \in {"probe", "sleep", "backoff"}
             /\ (threads[t] = "probe" /\ threads'[t] = "backoff") => mlock' = NoThread
             /\ (threads[t] # "exited" /\ threads'[t] = "exited") => ~is_monitoring]_vars
    /\ \A t \in Samplers :
           (threads[t] = "backoff") ~> (threads[t] = "acquire" \/ ~is_monitoring)

\* C17 witness: a thread is in the backoff sleep after a failed probe, the monitor is
\* running and the lock is free.
C17_Witness ==
    \E t \in Samplers :
        /\ threads[t] = "backoff"
        /\ is_monitoring
        /\ mlock = NoThread

\* The threads: those of the callers and those running _monitor_loop.
Threads == {CallerThread(c) : c \in Callers} \cup {SamplerThread(t) : t \in Samplers}

\* The locks a thread holds: the dispatcher's (held by the generator the thread
\* drives), the monitor's, the session's.
LocksHeld(th) ==
    {l \in {"dispatcher", "monitor", "session"} :
        \/ l = "dispatcher" /\ th[1] = "caller" /\ lock = th[2]
        \/ l = "monitor" /\ mlock = th
        \/ l = "session" /\ slock = th}

\* C20: no thread holds more than one of the dispatcher's lock, the monitor's lock and
\* the session's lock at the same time.
C20_OneLockAtATime == \A th \in Threads : Cardinality(LocksHeld(th)) <= 1

\* C24: with a shared monitor and every request made through
\* ConcurrentLLM.generate_response, the monitor's active_requests never exceeds the
\* dispatcher's active_requests, and so never exceeds max_concurrent, also after
\* requests that ended by a runner error or by the caller closing the stream.
C24_MonitorWithinDispatcher ==
    monitor =>
        /\ metrics.active_requests <= active_requests
        /\ metrics.active_requests <= max_concurrent

\* The threads that are executing _monitor_loop.
InMonitorLoop == {t \in Samplers : threads[t] \notin {"unborn", "exited"}}

\* C25: at most one thread is executing _monitor_loop at any time, after any sequence
\* of start_monitoring and stop_monitoring calls, a start right after a stop whose join
\* timed out included.
C25_OneSamplingThread == Cardinality(InMonitorLoop) <= 1

\* C29: generate_response_async calls the callback it was given exactly once for the
\* request, also when the callback raises: a worker that is over has called it once,
\* and no worker has called it more than once.
C29_CallbackOnce ==
    \A c \in Callers :
        (req[c].entry = "async" /\ req[c].callback # "none") =>
            /\ Len(req[c].callbacks) <= 1
            /\ req[c].pc = "done" => Len(req[c].callbacks) = 1

\* The preference order of the automatic selection.
Preference == <<"cuda", "metal", "opencl", "cpu">>

\* C21: with backend='auto' the selected backend is a function of the detection result:
\* the first available one in the order cuda, metal, opencl, cpu, and cpu when none is
\* available, for each of the 16 availability mappings.
C21_FirstAvailableSelected ==
    (constructed # "none" /\ backend = "auto") =>
        LET avail == {i \in DOMAIN Preference : available_backends[Preference[i]]}
        IN  selected_backend =
                IF avail = {} THEN "cpu"
                ELSE Preference[CHOOSE i \in avail : \A j \in avail : i <= j]

\* C21 witness: constructed with backend='auto' where cuda is not available, metal and
\* opencl are, and cpu is not: metal is selected.
C21_Witness ==
    /\ constructed # "none"
    /\ backend = "auto"
    /\ available_backends = [b \in Backends |-> b \in {"metal", "opencl"}]
    /\ selected_backend = "metal"

\* C22: a constructor call with a backend argument that is neither 'auto' nor a backend,
\* or with a max_concurrent outside 1..MaxLimit, gives no instance.
C22_InvalidConfigRejected ==
    /\ backend \notin {"auto"} \cup Backends => constructed \notin {"SimpleLLM", "ConcurrentLLM"}
    /\ max_concurrent \notin 1..MaxLimit => constructed # "ConcurrentLLM"

\* The call was a successful generation: the runner's stream was exhausted and the
\* statistics fragment yielded.
Succeeded(c) == Count(req[c].stream, "stats") = 1

\* C28: once all calls have ended, total_chars is the sum of the response lengths of
\* the successful generations and total_time the sum of their generation times,
\* whatever the interleaving of the generations was.
C28_NoLostStatistics ==
    AllEnded =>
        /\ total_chars =
               Sum([c \in Callers |->
                       IF Succeeded(c) THEN Len(ResponseText(req[c].token_count)) ELSE 0])
        /\ total_time =
               Sum([c \in Callers |-> IF Succeeded(c) THEN req[c].generation_time ELSE 0])

\* The lines of a prompt that come from the history: those between the system line and
\* the line of the current input.
HistoryLines(prompt) == SubSeq(prompt, 2, Len(prompt) - 2)

\* The step in which caller c's request builds its prompt.
Builds(c) == req[c].pc = "prompt" /\ req'[c].pc = "stream"

\* C23: the prompt a request builds takes its history lines from the most recent
\* entries of the history as it is then, at most 6 of them and all of them when there
\* are fewer, in their order; and clear_history leaves the history empty, so that a
\* prompt built after it takes no entry from before it.
C23_PromptWindow ==
    /\ [][\A c \in Callers :
            Builds(c) =>
                LET lines == HistoryLines(req'[c].prompt)
                    n == Len(chat_history')
                    k == IF n < 6 THEN n ELSE 6
                IN  /\ Len(lines) = k
                    /\ \A i \in 1..k : lines[i] = Segment(chat_history'[n - k + i])]_vars
    /\ [][\A c \in Callers :
            (call[c] = "clear_history" /\ call'[c] = "none") => chat_history' = <<>>]_vars

\* C23 witness: a prompt was built on a history of more than 10 entries and has 6
\* history lines.
C23_Witness ==
    \E c \in Callers :
        /\ req[c].pc = "stream"
        /\ Len(chat_history) > 10
        /\ Len(HistoryLines(req[c].prompt)) = 6

\* C26: the prompt of a request holds the request's user input as a user line exactly
\* once, whatever the length of the history.
C26_InputOnce ==
    \A c \in Callers :
        req[c].prompt # <<>> =>
            Cardinality({i \in DOMAIN req[c].prompt :
                            /\ req[c].prompt[i].role = "user"
                            /\ req[c].prompt[i].content = req[c].user_input}) = 1

\* C27: every assistant entry of the history comes after the user entry of the same
\* request: a generation that was streaming when clear_history ran does not append its
\* assistant entry to the cleared history.
C27_ClearIsAtomic ==
    \A i \in DOMAIN chat_history :
        chat_history[i].role = "assistant" =>
            \E j \in 1..(i - 1) :
                /\ chat_history[j].role = "user"
                /\ chat_history[j].of = chat_history[i].of

\* The least priority number among the entries of the priority queue.
SmallestPending ==
    CHOOSE p \in {priority_queue[i][1] : i \in DOMAIN priority_queue} :
        \A i \in DOMAIN priority_queue : p <= priority_queue[i][1]

\* C30: a get_next_request call that finds high-priority requests pending returns one
\* of them, one with the smallest priority number, and takes it off the priority
\* queue; a call that finds none pending returns the oldest normal request, and None
\* only when the normal queue is empty as well; add_request returns False exactly when
\* the request is a normal one and the normal queue holds max_size entries, and then
\* both queues are left as they were.  (Each queue is judged at the step of the call
\* that examines it.)
C30_QueueDiscipline ==
    [][/\ (GetPriority /\ priority_queue # <<>>) =>
              /\ next_request'.result.kind = "request"
              /\ \E i \in DOMAIN priority_queue :
                     /\ priority_queue[i][1] = SmallestPending
                     /\ priority_queue[i][2] = next_request'.result.request_data
              /\ Len(priority_queue') = Len(priority_queue) - 1
       /\ GetNormal =>
              IF queue # <<>>
              THEN /\ next_request'.result = Outcome("request", Head(queue))
                   /\ queue' = Tail(queue)
              ELSE next_request'.result.kind = "None"
       /\ \A request_data \in RequestData, priority \in Priorities :
              add_request(request_data, priority) =>
                  /\ added'.result = "False"
                         <=> (priority > HighPriority /\ Len(queue) = MaxSize)
                  /\ added'.result = "False" => UNCHANGED <<queue, priority_queue>>
      ]_vars

\* The instance with the fewest outstanding requests, the first of them in the list.
LeastLoaded ==
    CHOOSE i \in 0..(Len(request_counts) - 1) :
        \A j \in 0..(Len(request_counts) - 1) :
            \/ At(request_counts, i) < At(request_counts, j)
            \/ At(request_counts, i) = At(request_counts, j) /\ i <= j

\* The call returned the least loaded instance with its index, counted it, and did not
\* touch the round-robin index.
ReturnsLeastLoaded ==
    /\ instance'.kind = "instance"
    /\ instance'.instance_id = LeastLoaded
    /\ instance'.instance = At(llm_instances, LeastLoaded)
    /\ request_counts' = [request_counts EXCEPT ![LeastLoaded + 1] = @ + 1]
    /\ current_index' = current_index

\* Only the count of instance_id went down, by one and not below 0; no count changed
\* for an id out of range.
CompletesOnly(instance_id) ==
    request_counts' =
        IF instance_id \in 0..(Len(request_counts) - 1)
        THEN [request_counts EXCEPT ![instance_id + 1] = IF @ > 0 THEN @ - 1 ELSE 0]
        ELSE request_counts

\* No count is negative, and while every completion had its issue each count is the
\* number issued minus the number completed.
CountsSound ==
    \A i \in DOMAIN request_counts :
        /\ request_counts[i] >= 0
        /\ ~unmatched => request_counts[i] = issued[i] - completed[i]

====
